---- MODULE Spec2Model ----
(***************************************************************************)
(* Model of sqlx-mysql/src/connection/infile.rs: the client side of the    *)
(* MySQL LOAD DATA LOCAL INFILE exchange (MySqlLocalInfile).               *)
(*                                                                         *)
(* A Vec<u8> is a sequence of runs.  A run is either one literal byte      *)
(* (k = "lit", value lo, hi = lo + 1) or a slice of the caller's logical   *)
(* input stream (k = "data", the bytes lo .. hi-1 of the stream).  The     *)
(* length of a run is hi - lo in both cases.  Header bytes are literal,    *)
(* caller bytes are identified by their position in the stream, so that a  *)
(* byte that is lost, duplicated, reordered or overwritten shows.          *)
(***************************************************************************)
EXTENDS Integers, Sequences, FiniteSets, TLC

VARIABLES phase, filename, buf, sequence_id, wire, written, ops, result, s0, recvs, cmds, final

vars == <<phase, filename, buf, sequence_id, wire, written, ops, result, s0, recvs, cmds, final>>

\* const MAX_MYSQL_PACKET_SIZE: usize = (1 << 24) - 2
MAX_MYSQL_PACKET_SIZE == 16777214

\* Number of write/flush calls made on one session.
MaxCalls == 3

\* Lengths of the slices handed to write.
WriteLens == {0, 1, 4, 20, MAX_MYSQL_PACKET_SIZE - 1, MAX_MYSQL_PACKET_SIZE,
              MAX_MYSQL_PACKET_SIZE + 1, 2 * MAX_MYSQL_PACKET_SIZE}

\* The server's local-infile requests: the filename each names, and the value the
\* connection's sequence counter holds once the request has been received.
Requests == {[filename |-> "dummy", seq |-> 2], [filename |-> "other", seq |-> 255]}

\* Final packets the server may answer the terminator with.
Responses == {[kind |-> "ok", rows |-> 0], [kind |-> "ok", rows |-> 10],
              [kind |-> "err", rows |-> 0]}

\* No packet was received.
NoPacket == [kind |-> "none", rows |-> 0]

Min(a, b) == IF a <= b THEN a ELSE b

\* --------------------------------------------------------------- Vec<u8>

Lit(v) == [k |-> "lit", lo |-> v, hi |-> v + 1]

\* The slice [lo, hi) of the caller's stream, as a byte vector.
Slice(lo, hi) == IF lo >= hi THEN <<>> ELSE <<[k |-> "data", lo |-> lo, hi |-> hi]>>

\* &[0; 4]
Zero4 == <<Lit(0), Lit(0), Lit(0), Lit(0)>>

RECURSIVE VecLen(_)
VecLen(v) == IF v = <<>> THEN 0 ELSE (Head(v).hi - Head(v).lo) + VecLen(Tail(v))

\* Vec::extend_from_slice: s appended to v (adjacent slices of the stream join).
extend_from_slice(v, s) ==
    IF s = <<>> THEN v
    ELSE IF v = <<>> THEN s
    ELSE LET l == v[Len(v)]
             f == Head(s)
         IN IF l.k = "data" /\ f.k = "data" /\ l.hi = f.lo
            THEN SubSeq(v, 1, Len(v) - 1) \o <<[l EXCEPT !.hi = f.hi]>> \o Tail(s)
            ELSE v \o s

\* &v[..n]
RECURSIVE VecTake(_, _)
VecTake(v, n) ==
    IF n <= 0 \/ v = <<>> THEN <<>>
    ELSE LET h == Head(v)
             l == h.hi - h.lo
         IN IF l <= n THEN <<h>> \o VecTake(Tail(v), n - l)
            ELSE <<[h EXCEPT !.hi = h.lo + n]>>

\* v after v.drain(..n)
RECURSIVE VecDrop(_, _)
VecDrop(v, n) ==
    IF n <= 0 \/ v = <<>> THEN v
    ELSE LET h == Head(v)
             l == h.hi - h.lo
         IN IF l <= n THEN VecDrop(Tail(v), n - l)
            ELSE <<[h EXCEPT !.lo = h.lo + n]>> \o Tail(v)

\* Mutant of LeBytes3: the three bytes most significant first (to_be_bytes).
LeBytes3_be(len) ==
    <<Lit((len \div 65536) % 256), Lit((len \div 256) % 256), Lit(len % 256)>>

\* (len as u32).to_le_bytes()[..3]: the three low bytes of len, least significant
\* first (the cast to u32 keeps the low 32 bits, and so these three bytes).
LeBytes3(len) ==
    <<Lit(len % 256), Lit((len \div 256) % 256), Lit((len \div 65536) % 256)>>

\* Mutant of wrapping_add1: a plain increment, with no wraparound at 256.
wrapping_add1_nowrap(b) == b + 1

\* u8::wrapping_add(1)
wrapping_add1(b) == (b + 1) % 256

\* ------------------------------------------------------------ operations

\* The part of the session an operation works on, with the outcome of the step:
\* "ok", "err" (the socket write returned an error), "assert" (an assertion failed),
\* "index" (a slice index out of range).
St(b, w, s, o) == [buf |-> b, wire |-> w, seq |-> s, out |-> o]

Panicked(out) == out \in {"assert", "index"}

\* Mutant of drain_packet: the sequence counter is incremented before the socket
\* write, so a failed write leaves it incremented.
drain_packet_inc_first(st, len, fail) ==
    IF VecLen(st.buf) < 4 \/ len + 4 > VecLen(st.buf)
    THEN [st EXCEPT !.out = "index"]
    ELSE LET b == LeBytes3(len) \o <<Lit(st.seq)>> \o VecDrop(st.buf, 4)
         IN IF fail
            THEN St(b, st.wire, wrapping_add1(st.seq), "err")
            ELSE St(VecDrop(b, len + 4), Append(st.wire, VecTake(b, len + 4)),
                    wrapping_add1(st.seq), "ok")

\* drain_packet(len); fail: the socket write returns an error.
drain_packet(st, len, fail) ==
    IF VecLen(st.buf) < 4 \/ len + 4 > VecLen(st.buf)
    THEN [st EXCEPT !.out = "index"]
    ELSE LET b == LeBytes3(len) \o <<Lit(st.seq)>> \o VecDrop(st.buf, 4)
         IN IF fail
            THEN St(b, st.wire, st.seq, "err")
            ELSE St(VecDrop(b, len + 4), Append(st.wire, VecTake(b, len + 4)),
                    wrapping_add1(st.seq), "ok")

\* Mutant of split_at: right is appended whole, never split.
split_at_whole(right_len) == right_len

\* std::cmp::min(MAX_MYSQL_PACKET_SIZE, right.len()): where write splits right.
split_at(right_len) == Min(MAX_MYSQL_PACKET_SIZE, right_len)

\* Mutant of write_loop: once right is consumed, write flushes what is buffered.
RECURSIVE write_loop_flush_after(_, _, _, _)
write_loop_flush_after(st, lo, hi, fail_at) ==
    IF lo >= hi
    THEN IF VecLen(st.buf) > 4 THEN drain_packet(st, VecLen(st.buf) - 4, FALSE) ELSE st
    ELSE LET mid == lo + split_at(hi - lo)
             b == extend_from_slice(st.buf, Slice(lo, mid))
             s1 == [st EXCEPT !.buf = b]
         IN IF VecLen(b) >= MAX_MYSQL_PACKET_SIZE + 4
            THEN IF VecLen(b) # MAX_MYSQL_PACKET_SIZE + 4
                 THEN [s1 EXCEPT !.out = "assert"]
                 ELSE LET d == drain_packet(s1, MAX_MYSQL_PACKET_SIZE, fail_at = 1)
                      IN IF d.out # "ok" THEN d
                         ELSE IF d.buf # <<>> THEN [d EXCEPT !.out = "assert"]
                         ELSE write_loop_flush_after(
                                  [d EXCEPT !.buf = extend_from_slice(d.buf, Zero4)],
                                  mid, hi, fail_at - 1)
            ELSE write_loop_flush_after(s1, mid, hi, fail_at)

\* The loop of write over right = the slice [lo, hi) of the stream; fail_at: which of
\* this call's socket writes fails (0: none).
RECURSIVE write_loop(_, _, _, _)
write_loop(st, lo, hi, fail_at) ==
    IF lo >= hi THEN st
    ELSE LET mid == lo + split_at(hi - lo)
             b == extend_from_slice(st.buf, Slice(lo, mid))
             s1 == [st EXCEPT !.buf = b]
         IN IF VecLen(b) >= MAX_MYSQL_PACKET_SIZE + 4
            THEN IF VecLen(b) # MAX_MYSQL_PACKET_SIZE + 4
                 THEN [s1 EXCEPT !.out = "assert"]
                 ELSE LET d == drain_packet(s1, MAX_MYSQL_PACKET_SIZE, fail_at = 1)
                      IN IF d.out # "ok" THEN d
                         ELSE IF d.buf # <<>> THEN [d EXCEPT !.out = "assert"]
                         ELSE write_loop([d EXCEPT !.buf = extend_from_slice(d.buf, Zero4)],
                                         mid, hi, fail_at - 1)
            ELSE write_loop(s1, mid, hi, fail_at)

\* Mutant of flush_body: the buffer is drained without the test len > 4.
flush_body_always(st, fail) ==
    IF ~(VecLen(st.buf) <= MAX_MYSQL_PACKET_SIZE + 4)
    THEN [st EXCEPT !.out = "assert"]
    ELSE drain_packet(st, VecLen(st.buf) - 4, fail)

\* Mutant of flush_body: the test is len >= 4, so a header-only buffer is drained too.
flush_body_ge(st, fail) ==
    IF VecLen(st.buf) >= 4
    THEN IF ~(VecLen(st.buf) <= MAX_MYSQL_PACKET_SIZE + 4)
         THEN [st EXCEPT !.out = "assert"]
         ELSE drain_packet(st, VecLen(st.buf) - 4, fail)
    ELSE st

\* The body of flush; fail: the socket write returns an error.
flush_body(st, fail) ==
    IF VecLen(st.buf) > 4
    THEN IF ~(VecLen(st.buf) <= MAX_MYSQL_PACKET_SIZE + 4)
         THEN [st EXCEPT !.out = "assert"]
         ELSE drain_packet(st, VecLen(st.buf) - 4, fail)
    ELSE st

\* MySqlStream::send_empty_response: one packet with an empty payload, framed like
\* every packet of the connection (length 0, the current sequence byte).
send_empty_response(st, fail) ==
    IF fail THEN [st EXCEPT !.out = "err"]
    ELSE St(st.buf, Append(st.wire, LeBytes3(0) \o <<Lit(st.seq)>>),
            wrapping_add1(st.seq), "ok")

NoResult == [ok |-> FALSE, rows |-> 0, err |-> "none"]
Ok(rows) == [ok |-> TRUE, rows |-> rows, err |-> "none"]
Err(kind) == [ok |-> FALSE, rows |-> 0, err |-> kind]

\* Packet::ok on the final packet: the OK packet's affected_rows, or the server's error.
packet_ok(resp) == IF resp.kind = "ok" THEN Ok(resp.rows) ELSE Err("server")

\* What finish leaves: the session part, the number of packets it read, the packet
\* it read and the value it returns.
Fin(st, n, pkt, res) ==
    [buf |-> st.buf, wire |-> st.wire, seq |-> st.seq, out |-> st.out,
     recvs |-> n, final |-> pkt, result |-> res]

\* Mutant of finish_body: the terminator is sent before the final flush.
finish_body_term_first(st, fault, resp) ==
    LET e == send_empty_response(st, fault = "send")
    IN IF e.out # "ok" THEN Fin(e, 0, NoPacket, Err("io"))
       ELSE LET f == flush_body(e, fault = "socket")
            IN IF f.out # "ok"
               THEN Fin(f, 0, NoPacket, IF f.out = "err" THEN Err("io") ELSE NoResult)
               ELSE IF fault = "recv" THEN Fin([f EXCEPT !.out = "err"], 1, NoPacket, Err("io"))
               ELSE IF ~packet_ok(resp).ok
                    THEN Fin([f EXCEPT !.out = "err"], 1, resp, packet_ok(resp))
               ELSE Fin(f, 1, resp, Ok(packet_ok(resp).rows))

\* Mutant of finish_body: the result of packet.ok() is not propagated, the row count
\* of the packet is returned whatever the packet is.
finish_body_ignore_server_err(st, fault, resp) ==
    LET f == flush_body(st, fault = "socket")
    IN IF f.out # "ok"
       THEN Fin(f, 0, NoPacket, IF f.out = "err" THEN Err("io") ELSE NoResult)
       ELSE LET e == send_empty_response(f, fault = "send")
            IN IF e.out # "ok" THEN Fin(e, 0, NoPacket, Err("io"))
               ELSE IF fault = "recv" THEN Fin([e EXCEPT !.out = "err"], 1, NoPacket, Err("io"))
               ELSE Fin(e, 1, resp, Ok(resp.rows))

\* Mutant of finish_body: the error of the final flush is dropped and finish goes on.
finish_body_ignore_flush_err(st, fault, resp) ==
    LET f == flush_body(st, fault = "socket")
    IN IF Panicked(f.out) THEN Fin(f, 0, NoPacket, NoResult)
       ELSE LET e == send_empty_response([f EXCEPT !.out = "ok"], fault = "send")
            IN IF e.out # "ok" THEN Fin(e, 0, NoPacket, Err("io"))
               ELSE IF fault = "recv" THEN Fin([e EXCEPT !.out = "err"], 1, NoPacket, Err("io"))
               ELSE IF ~packet_ok(resp).ok
                    THEN Fin([e EXCEPT !.out = "err"], 1, resp, packet_ok(resp))
               ELSE Fin(e, 1, resp, Ok(packet_ok(resp).rows))

\* The body of finish; fault: the I/O step that fails, resp: the packet the server
\* answers with.
finish_body(st, fault, resp) ==
    LET f == flush_body(st, fault = "socket")
    IN IF f.out # "ok"
       THEN Fin(f, 0, NoPacket, IF f.out = "err" THEN Err("io") ELSE NoResult)
       ELSE LET e == send_empty_response(f, fault = "send")
            IN IF e.out # "ok" THEN Fin(e, 0, NoPacket, Err("io"))
               ELSE IF fault = "recv" THEN Fin([e EXCEPT !.out = "err"], 1, NoPacket, Err("io"))
               ELSE IF ~packet_ok(resp).ok
                    THEN Fin([e EXCEPT !.out = "err"], 1, resp, packet_ok(resp))
               ELSE Fin(e, 1, resp, Ok(packet_ok(resp).rows))

Cur == St(buf, wire, sequence_id, "ok")

\* One call on the session: the operation, the length of its input, its outcome and,
\* for finish, the I/O step that failed in it ("none": no I/O step failed).
Call(op, n, res, at) == [op |-> op, n |-> n, res |-> res, at |-> at]

Init ==
    /\ phase = "idle"
    /\ filename = ""
    /\ buf = <<>>
    /\ sequence_id = 0
    /\ wire = <<>>
    /\ written = 0
    /\ ops = <<>>
    /\ result = NoResult
    /\ s0 = 0
    /\ recvs = 0
    /\ cmds = 0
    /\ final = NoPacket

\* Mutant of begin: the pending buffer is allocated but not seeded with the 4
\* placeholder bytes.
begin_unseeded ==
    /\ phase = "idle"
    /\ \E fault \in {"none", "wait", "send", "recv", "decode"}, req \in Requests :
        /\ cmds' = IF fault = "wait" THEN 0 ELSE 1
        /\ recvs' = IF fault \in {"wait", "send"} THEN 0 ELSE 1
        /\ IF fault = "none"
           THEN /\ phase' = "open"
                /\ filename' = req.filename
                /\ buf' = <<>>
                /\ sequence_id' = req.seq
                /\ s0' = req.seq
                /\ result' = NoResult
           ELSE /\ phase' = "nosession"
                /\ result' = Err(fault)
                /\ UNCHANGED <<filename, buf, sequence_id, s0>>
        /\ UNCHANGED <<wire, written, ops, final>>

\* MySqlLocalInfile::begin; fault: the step that fails, req: the server's request.
begin ==
    /\ phase = "idle"
    /\ \E fault \in {"none", "wait", "send", "recv", "decode"}, req \in Requests :
        /\ cmds' = IF fault = "wait" THEN 0 ELSE 1
        /\ recvs' = IF fault \in {"wait", "send"} THEN 0 ELSE 1
        /\ IF fault = "none"
           THEN /\ phase' = "open"
                /\ filename' = req.filename
                /\ buf' = extend_from_slice(<<>>, Zero4)
                /\ sequence_id' = req.seq
                /\ s0' = req.seq
                /\ result' = NoResult
           ELSE /\ phase' = "nosession"
                /\ result' = Err(fault)
                /\ UNCHANGED <<filename, buf, sequence_id, s0>>
        /\ UNCHANGED <<wire, written, ops, final>>

\* MySqlLocalInfile::write
write ==
    /\ phase = "open"
    /\ Len(ops) < MaxCalls
    /\ \E n \in WriteLens, fail_at \in 0 .. 2 :
        LET r == write_loop(Cur, written, written + n, fail_at)
        IN /\ fail_at > 0 => r.out = "err"
           /\ buf' = r.buf
           /\ wire' = r.wire
           /\ sequence_id' = r.seq
           /\ written' = written + n
           /\ ops' = Append(ops, Call("write", n, r.out, "none"))
           /\ phase' = IF Panicked(r.out) THEN "panicked" ELSE "open"
           /\ result' = IF r.out = "err" THEN Err("io") ELSE NoResult
    /\ UNCHANGED <<filename, s0, recvs, cmds, final>>

\* MySqlLocalInfile::flush
flush ==
    /\ phase = "open"
    /\ Len(ops) < MaxCalls
    /\ \E fail \in BOOLEAN :
        LET r == flush_body(Cur, fail)
        IN /\ fail => r.out = "err"
           /\ buf' = r.buf
           /\ wire' = r.wire
           /\ sequence_id' = r.seq
           /\ ops' = Append(ops, Call("flush", 0, r.out, "none"))
           /\ phase' = IF Panicked(r.out) THEN "panicked" ELSE "open"
           /\ result' = IF r.out = "err" THEN Err("io") ELSE NoResult
    /\ UNCHANGED <<filename, written, s0, recvs, cmds, final>>

\* MySqlLocalInfile::finish
finish ==
    /\ phase = "open"
    /\ \E fault \in {"none", "socket", "send", "recv"} :
       \E resp \in IF fault = "none" THEN Responses ELSE {NoPacket} :
        LET r == finish_body(Cur, fault, resp)
        IN /\ fault = "socket" => VecLen(buf) > 4
           /\ buf' = r.buf
           /\ wire' = r.wire
           /\ sequence_id' = r.seq
           /\ recvs' = recvs + r.recvs
           /\ final' = r.final
           /\ ops' = Append(ops, Call("finish", 0, r.out, fault))
           /\ phase' = IF Panicked(r.out) THEN "panicked" ELSE "finished"
           /\ result' = r.result
    /\ UNCHANGED <<filename, written, s0, cmds>>

Next == begin \/ write \/ flush \/ finish

Spec == Init /\ [][Next]_vars

\* ---------------------------------------------------------------- wire view

\* The payload of a transmitted packet: its bytes after the 4-byte header.
Payload(pkt) == VecDrop(pkt, 4)

\* The payload length a packet's header announces (bytes 0..2, little-endian).
HeaderLen(pkt) == pkt[1].lo + 256 * pkt[2].lo + 65536 * pkt[3].lo

\* A packet with an empty payload.
IsEmptyPacket(pkt) == VecLen(pkt) = 4

\* The payloads of the packets w, concatenated in transmission order.
RECURSIVE Payloads(_)
Payloads(w) ==
    IF w = <<>> THEN <<>>
    ELSE extend_from_slice(Payloads(SubSeq(w, 1, Len(w) - 1)), Payload(w[Len(w)]))

\* The packets of the wire that carry data.
DataPackets == SelectSeq(wire, LAMBDA pkt : ~IsEmptyPacket(pkt))

\* S: all the bytes the caller handed to write so far.
Stream == Slice(0, written)

\* No call on the session returned an I/O error so far.
NoIoError ==
    \A i \in 1 .. Len(ops) : ops[i].res = "err" => (ops[i].op = "finish" /\ ops[i].at = "none")

\* The session was driven by write calls only (and finish).
OnlyWrites == \A i \in 1 .. Len(ops) : ops[i].op \in {"write", "finish"}

\* The session is over: finish ran, or a call panicked.
SessionOver == phase \in {"finished", "panicked"}

\* ------------------------------------------------------------------- claims

\* C1: chunk-size invariance.  However the bytes S are split across the write calls
\* of a fresh session that is then finished, the payloads transmitted, concatenated
\* in order, are exactly S.
ChunkSizeInvariance ==
    (SessionOver /\ OnlyWrites /\ NoIoError) => Payloads(wire) = Stream

\* C2: no sequence of write and flush calls makes an assertion of write or flush fail.
AssertionsNeverFire ==
    \A i \in 1 .. Len(ops) : ops[i].res # "assert"

\* C3: between calls, after begin and any successful write and flush calls, the
\* pending buffer starts with 4 reserved header bytes and holds between 4 and
\* MAX_MYSQL_PACKET_SIZE + 4 bytes.
PendingBufferInvariant ==
    (phase = "open" /\ NoIoError) =>
        /\ 4 <= VecLen(buf)
        /\ VecLen(buf) <= MAX_MYSQL_PACKET_SIZE + 4
        /\ \A i \in 1 .. 4 : buf[i].k = "lit"

\* The first half of C4 alone: no transmitted packet's payload is longer than
\* MAX_MYSQL_PACKET_SIZE, and its header announces the payload's length.
PayloadBound ==
    \A i \in 1 .. Len(wire) :
        /\ VecLen(Payload(wire[i])) <= MAX_MYSQL_PACKET_SIZE
        /\ HeaderLen(wire[i]) = VecLen(Payload(wire[i]))

\* C4: no packet's payload is longer than MAX_MYSQL_PACKET_SIZE, and an input longer
\* than MAX_MYSQL_PACKET_SIZE, written by any write and flush calls and finished, was
\* sent as at least 2 data packets whose payloads concatenate to the input.
BoundedPacketsSplitLossless ==
    /\ PayloadBound
    /\ (phase = "finished" /\ result.ok /\ NoIoError /\ written > MAX_MYSQL_PACKET_SIZE) =>
           /\ Len(DataPackets) >= 2
           /\ Payloads(wire) = Stream

\* C5: the k-th data packet of the session carries (s0 + k - 1) mod 256 in header
\* byte 3, and while the session streams the connection's counter is s0 plus the
\* number of packets sent, mod 256: it advances once per packet sent, never otherwise.
SequenceNumbers ==
    /\ \A k \in 1 .. Len(DataPackets) : DataPackets[k][4] = Lit((s0 + k - 1) % 256)
    /\ phase = "open" => sequence_id = (s0 + Len(wire)) % 256

\* Two data packets sent from a counter of 255: the numbers 255 and 0.
SequenceWrapReached ==
    /\ phase = "open"
    /\ s0 = 255
    /\ Len(wire) = 2
    /\ sequence_id = 1

\* C6: a successful finish has sent exactly one empty packet, the last packet of the
\* session, after every data packet; with nothing written it is the only packet.
TerminatorOnceAndLast ==
    (phase = "finished" /\ result.ok) =>
        /\ Len(wire) >= 1
        /\ IsEmptyPacket(wire[Len(wire)])
        /\ HeaderLen(wire[Len(wire)]) = 0
        /\ \A k \in 1 .. Len(wire) - 1 : ~IsEmptyPacket(wire[k])
        /\ written = 0 => Len(wire) = 1

\* finish succeeded after one write of 20 bytes: its own flush sent the data packet,
\* then the terminator.
FinishedAfterFinalFlush ==
    /\ phase = "finished"
    /\ result.ok
    /\ Len(ops) = 2
    /\ ops[1].op = "write" /\ ops[1].n = 20
    /\ Len(wire) = 2

\* ceil(n / MAX_MYSQL_PACKET_SIZE)
CeilPackets(n) == (n + MAX_MYSQL_PACKET_SIZE - 1) \div MAX_MYSQL_PACKET_SIZE

\* C7: one write of n bytes on a fresh session sends n div MAX full packets itself and
\* keeps the rest behind a placeholder header; with finish, ceil(n / MAX) data packets
\* are sent, all but the last full, and then one terminator.
SingleWritePackets ==
    /\ (Len(ops) = 1 /\ ops[1].op = "write" /\ ops[1].res # "err") =>
           LET n == ops[1].n
               full == n \div MAX_MYSQL_PACKET_SIZE
           IN /\ ops[1].res = "ok"
              /\ Len(wire) = full
              /\ \A k \in 1 .. Len(wire) : VecLen(Payload(wire[k])) = MAX_MYSQL_PACKET_SIZE
              /\ buf = extend_from_slice(Zero4, Slice(full * MAX_MYSQL_PACKET_SIZE, n))
    /\ (Len(ops) = 2 /\ ops[1].op = "write" /\ ops[1].res = "ok"
            /\ ops[2].op = "finish" /\ result.ok) =>
           LET n == ops[1].n
               c == CeilPackets(n)
           IN /\ Len(wire) = c + 1
              /\ \A k \in 1 .. c :
                    VecLen(Payload(wire[k])) =
                        IF k < c THEN MAX_MYSQL_PACKET_SIZE
                        ELSE n - (c - 1) * MAX_MYSQL_PACKET_SIZE
              /\ IsEmptyPacket(wire[c + 1])

\* One write of MAX_MYSQL_PACKET_SIZE + 1 bytes, finished: two data packets and the
\* terminator.
SingleWriteTwoPackets ==
    /\ phase = "finished"
    /\ result.ok
    /\ Len(ops) = 2
    /\ ops[1].op = "write" /\ ops[1].n = MAX_MYSQL_PACKET_SIZE + 1
    /\ Len(wire) = 3

\* No byte of the caller is in the pending buffer.
NoPayloadBuffered == \A i \in 1 .. Len(buf) : buf[i].k # "data"

\* The step is a call of flush.
FlushCall == Len(ops') = Len(ops) + 1 /\ ops'[Len(ops')].op = "flush"

\* C8: flush with no payload buffered sends no packet and leaves the sequence counter
\* and the pending buffer as they are.
FlushNoPayloadNoop ==
    [][(FlushCall /\ NoPayloadBuffered) =>
           (wire' = wire /\ sequence_id' = sequence_id /\ buf' = buf
            /\ ops'[Len(ops')].res = "ok")]_vars

\* flush was called right after a flush that sent the buffered payload.
FlushedTwice ==
    /\ phase = "open"
    /\ Len(ops) = 3
    /\ ops[1].op = "write" /\ ops[1].n = 20
    /\ ops[2].op = "flush" /\ ops[2].res = "ok"
    /\ ops[3].op = "flush" /\ ops[3].res = "ok"
    /\ Len(wire) = 1

\* C9: finish returns the row count of the server's final packet when that packet is
\* a success, and an error, never a row count, when it is a server error.
FinishReturnsServerResult ==
    phase = "finished" =>
        /\ final.kind = "ok" => (result.ok /\ result.rows = final.rows)
        /\ final.kind = "err" => (~result.ok /\ result.err = "server")

\* finish read a server error as its final packet.
ServerErrorRead ==
    /\ phase = "finished"
    /\ final.kind = "err"
    /\ ops[Len(ops)].at = "none"

\* C10: finish stops at its first failing step: after a failed flush no terminator is
\* sent and no response read, after a failed send of the terminator no response is
\* read, and every failure makes finish return an error.
FinishStopsAtFirstFailure ==
    (phase = "finished") =>
        LET c == ops[Len(ops)]
        IN /\ c.at = "socket" =>
                  /\ ~result.ok
                  /\ \A k \in 1 .. Len(wire) : ~IsEmptyPacket(wire[k])
                  /\ recvs = 1
                  /\ final = NoPacket
           /\ c.at = "send" => (~result.ok /\ recvs = 1 /\ final = NoPacket)
           /\ c.at = "recv" => (~result.ok /\ final = NoPacket)

\* The final flush of finish failed with payload buffered.
FinalFlushFailed ==
    /\ phase = "finished"
    /\ ops[Len(ops)].at = "socket"
    /\ written > 0
    /\ \E i \in 1 .. Len(buf) : buf[i].k = "data"

\* The last call made on the session.
LastCall == ops[Len(ops)]

\* C11: whenever write has returned successfully, the pending buffer is between 4 and
\* MAX_MYSQL_PACKET_SIZE + 3 bytes long (fewer than MAX_MYSQL_PACKET_SIZE payload
\* bytes behind the header).
WriteLeavesRoom ==
    (phase = "open" /\ Len(ops) >= 1 /\ NoIoError
        /\ LastCall.op = "write" /\ LastCall.res = "ok") =>
        /\ 4 <= VecLen(buf)
        /\ VecLen(buf) <= MAX_MYSQL_PACKET_SIZE + 3

\* The caller's bytes held in the vector v.
CallerBytes(v) == SelectSeq(v, LAMBDA r : r.k = "data")

\* The step is a successful run of flush: a call of flush that returned Ok, or the
\* flush that finish starts with (line 145) when it returned Ok.
FlushRanOk ==
    /\ Len(ops') = Len(ops) + 1
    /\ \/ ops'[Len(ops')].op = "flush" /\ ops'[Len(ops')].res = "ok"
       \/ ops'[Len(ops')].op = "finish" /\ ops'[Len(ops')].at # "socket"
              /\ ~Panicked(ops'[Len(ops')].res)

\* The data packets the step has put on the wire.
NewDataPackets ==
    SelectSeq(SubSeq(wire', Len(wire) + 1, Len(wire')), LAMBDA pkt : ~IsEmptyPacket(pkt))

\* C12: a successful flush with payload buffered sends exactly one packet, whose
\* payload is all the buffered payload (buffer length minus 4 bytes), and leaves no
\* buffered payload byte unsent.
FlushSendsAllBuffered ==
    [][(FlushRanOk /\ ~NoPayloadBuffered) =>
           /\ Len(NewDataPackets) = 1
           /\ Payload(NewDataPackets[1]) = CallerBytes(buf)
           /\ CallerBytes(buf') = <<>>]_vars

\* The packets the step has put on the wire.
NewPackets == SubSeq(wire', Len(wire) + 1, Len(wire'))

\* The step is a call of write.
WriteCall == Len(ops') = Len(ops) + 1 /\ ops'[Len(ops')].op = "write"

\* C13: a drain of payload length len sends the first len + 4 bytes of the buffer,
\* with len in bytes 0..2 (little-endian) and the sequence counter in byte 3, removes
\* them from the buffer and then increments the counter mod 256; every packet put on
\* the wire is framed this way.
DrainPacketContract ==
    [][/\ \A j \in 1 .. Len(NewPackets) :
              /\ \A i \in 1 .. 4 : NewPackets[j][i].k = "lit"
              /\ HeaderLen(NewPackets[j]) = VecLen(NewPackets[j]) - 4
              /\ NewPackets[j][4] = Lit((sequence_id + j - 1) % 256)
       /\ (FlushCall /\ ops'[Len(ops')].res = "ok" /\ Len(wire') > Len(wire)) =>
              LET len == VecLen(buf) - 4
                  pkt == wire'[Len(wire')]
              IN /\ Len(wire') = Len(wire) + 1
                 /\ HeaderLen(pkt) = len
                 /\ VecLen(pkt) = len + 4
                 /\ Payload(pkt) = VecDrop(VecTake(buf, len + 4), 4)
                 /\ buf' = VecDrop(buf, len + 4)
                 /\ sequence_id' = (sequence_id + 1) % 256
       /\ (WriteCall /\ ops'[Len(ops')].res = "ok") =>
              /\ \A j \in 1 .. Len(NewPackets) :
                    HeaderLen(NewPackets[j]) = MAX_MYSQL_PACKET_SIZE
              /\ VecLen(buf') = VecLen(buf) + ops'[Len(ops')].n
                                    - Len(NewPackets) * MAX_MYSQL_PACKET_SIZE
              /\ sequence_id' = (sequence_id + Len(NewPackets)) % 256]_vars

\* flush has drained a packet of MAX_MYSQL_PACKET_SIZE - 1 = 0xFFFFFD payload bytes.
DrainedLongPacket ==
    /\ phase = "open"
    /\ Len(ops) = 2
    /\ LastCall.op = "flush" /\ LastCall.res = "ok"
    /\ Len(wire) = 1
    /\ wire[1][1] = Lit(253) /\ wire[1][2] = Lit(255) /\ wire[1][3] = Lit(255)
    /\ buf = <<>>

\* C14: a write of zero bytes is a no-op in every reachable session state: it sends
\* no packet and leaves the pending buffer and the sequence counter as they are.
EmptyWriteNoop ==
    [][(WriteCall /\ ops'[Len(ops')].n = 0) =>
           /\ ops'[Len(ops')].res = "ok"
           /\ wire' = wire
           /\ buf' = buf
           /\ sequence_id' = sequence_id]_vars

\* A write of zero bytes was made with 20 payload bytes buffered.
EmptyWriteOnBufferedPayload ==
    /\ phase = "open"
    /\ Len(ops) = 2
    /\ ops[1].op = "write" /\ ops[1].n = 20
    /\ ops[2].op = "write" /\ ops[2].n = 0 /\ ops[2].res = "ok"
    /\ VecLen(buf) = 24
    /\ wire = <<>>

\* C15: begin waits, sends the statement, receives one packet and decodes it, and
\* stops at the first step that fails: then it returns that error, no session exists
\* and nothing was sent as data; on success the session holds the server's filename
\* and a pending buffer of exactly 4 zero bytes, and no payload has been sent.
BeginContract ==
    /\ phase = "nosession" =>
           /\ ~result.ok
           /\ result.err \in {"wait", "send", "recv", "decode"}
           /\ cmds = (IF result.err = "wait" THEN 0 ELSE 1)
           /\ recvs = (IF result.err \in {"wait", "send"} THEN 0 ELSE 1)
           /\ buf = <<>> /\ filename = "" /\ ops = <<>>
           /\ wire = <<>>
    /\ (phase = "open" /\ ops = <<>>) =>
           /\ cmds = 1 /\ recvs = 1
           /\ [filename |-> filename, seq |-> s0] \in Requests
           /\ buf = Zero4
           /\ wire = <<>> /\ written = 0

\* begin received a packet that does not decode as a local-infile request.
BeginDecodeFailed ==
    /\ phase = "nosession"
    /\ result.err = "decode"
    /\ cmds = 1 /\ recvs = 1

\* C16: flush calls are transparent to the data: after any write and flush calls and
\* a successful finish, the payloads sent, concatenated, are the bytes written.
FlushTransparent ==
    (phase = "finished" /\ result.ok /\ NoIoError) => Payloads(wire) = Stream

\* A packet the server reads as zero-length.
ZeroLength(pkt) == IsEmptyPacket(pkt) \/ HeaderLen(pkt) = 0

\* C17: no packet sent by write or flush has a zero-length payload: the only
\* zero-length packet of a session is the terminator, the last packet finish sends.
NoEmptyDataPacket ==
    \A k \in 1 .. Len(wire) :
        ZeroLength(wire[k]) =>
            (phase = "finished" /\ LastCall.op = "finish" /\ k = Len(wire))

\* write has sent a full packet and flush the one byte left: two data packets.
TwoDataPacketsSent ==
    /\ phase = "open"
    /\ Len(ops) = 2
    /\ ops[1].op = "write" /\ ops[1].n = MAX_MYSQL_PACKET_SIZE + 1
    /\ ops[2].op = "flush" /\ ops[2].res = "ok"
    /\ Len(wire) = 2
    /\ VecLen(wire[2]) = 5

\* The step is a call in which the socket write of a packet drain failed.
DrainFailed ==
    /\ Len(ops') = Len(ops) + 1
    /\ ops'[Len(ops')].res = "err"
    /\ \/ ops'[Len(ops')].op \in {"write", "flush"}
       \/ ops'[Len(ops')].op = "finish" /\ ops'[Len(ops')].at = "socket"

====
